---- MODULE Spec2Model ----
(***************************************************************************)
(* A model of tagfs.py: the Tagfs operations object serving VFS callbacks  *)
(* over a flat backing directory.  The state is the in-memory tag registry *)
(* (self.tags), the backing root's user.tagfs.tags xattr, the backing      *)
(* directory (name -> inode) and each inode's user.tags xattr.             *)
(*                                                                         *)
(* Strings are sequences of one-character strings.  A path is the list of  *)
(* its components after the leading '/', the root being the empty list.    *)
(*                                                                         *)
(* A run is any sequence of calls.  The variable last keeps one call in    *)
(* full: its arguments, its result and the state it started from.  Every   *)
(* handler takes a flag log saying whether this call is the one kept; a    *)
(* run is not extended past the kept call, since the same file-system      *)
(* state is reached by the same call not kept, and is extended from there. *)
(***************************************************************************)
EXTENDS Integers, Sequences, FiniteSets, TLC

VARIABLES tags, fsxattr, dir, xa, last

vars == <<tags, fsxattr, dir, xa, last>>

----------------------------------------------------------------------------
(* Bounds and universes *)

\* longest path, in components
MaxDepth == 2
\* number of distinct stat snapshots the OS can mint for mkdir
MaxStat == 1
\* number of files in the backing root at mount
MaxFiles == 1

NameA == <<"a">>
NameB == <<"b">>
NameAB == <<"a", ",", "b">>

\* base names (of files and of tags); one of them contains a comma
Names == {NameA, NameB, NameAB}

\* the empty string
Empty == <<>>

\* non-root paths of at most MaxDepth components
Paths == UNION {[1..n -> Names] : n \in 1..MaxDepth}

Root == <<>>

\* directory paths handed to readdir
DirPaths == {Root} \cup Paths

\* symlink targets: the empty string and a non-empty one
Targets == {Empty, NameA}

Stats == 1..MaxStat

\* the same in the specification of the registry operations
MaxStatRegistry == 2

StatsRegistry == 1..MaxStatRegistry

\* xattr names handed to getxattr, setxattr and removexattr: the tag store's
\* own attribute and one other
TagsAttr == "user.tags"
AttrNames == {TagsAttr, "user.other"}

\* inode numbers of the backing filesystem; 0 stands for "no entry"
Inodes == 1..Cardinality(Names)

Ino(n) == IF n = NameA THEN 1 ELSE IF n = NameB THEN 2 ELSE 3

\* value of an inode's user.tags xattr when the attribute is absent
Missing == <<"missing">>

Range(s) == {s[i] : i \in DOMAIN s}

\* the orders in which a set can be iterated
Orders(S) == {s \in [1..Cardinality(S) -> S] : Range(s) = S}

----------------------------------------------------------------------------
(* Module-level helpers, lines 11-35 *)

base(path) == IF path = Root THEN Empty ELSE path[Len(path)]

path2tags(path) == {path[i] : i \in 1..(Len(path) - 1)}

\* ','.join(list)
RECURSIVE join(_)
join(ns) ==
    IF ns = <<>> THEN Empty
    ELSE IF Len(ns) = 1 THEN ns[1]
    ELSE ns[1] \o <<",">> \o join(Tail(ns))

\* set(str.split(',')): s is the unread rest, cur the piece being read
RECURSIVE split(_, _)
split(s, cur) ==
    IF s = <<>> THEN {cur}
    ELSE IF Head(s) = "," THEN {cur} \cup split(Tail(s), <<>>)
    ELSE split(Tail(s), Append(cur, Head(s)))

\* the set xattr2tags returns for an attribute value v
decode(v) ==
    IF v = Missing THEN {}
    ELSE LET t == split(v, <<>>) IN IF t = {Empty} THEN {} ELSE t

\* the xattr table after xattr2tags has run on inode i: a missing attribute
\* is initialised to the empty string
xattr2tags_init(x, i) == IF x[i] = Missing THEN [x EXCEPT ![i] = Empty] ELSE x

\* the value set_tags_xattr writes for a set of tags: the tags joined in the
\* set's iteration order, a fixed order that no reader depends on (every
\* read goes through split into a set)
set_tags_value(S) == join(CHOOSE o \in Orders(S) : TRUE)

\* values handed to setxattr: the stores of the sets of names
XattrValues == {set_tags_value(S) : S \in SUBSET Names}

----------------------------------------------------------------------------
(* State helpers *)

\* keys of self.tags
Registry == {n \in Names : tags[n] # 0}

\* os.listdir('.')
Files == {n \in Names : dir[n] # 0}

\* the tag set a file carries on disk
TagSet(f) == decode(xa[dir[f]])

\* inodes no directory entry refers to are freed
Live(d, x) == [i \in Inodes |-> IF \E n \in Names : d[n] = i THEN x[i] ELSE Missing]

\* str(self.tags) and literal_eval: the registry as a list of (key, stat) items
str(t) ==
    LET items == {<<n, t[n]>> : n \in {m \in Names : t[m] # 0}}
    IN  CHOOSE s \in Orders(items) : TRUE

literal_eval(s) ==
    [n \in Names |-> IF \E i \in DOMAIN s : s[i][1] = n
                     THEN LET i == CHOOSE j \in DOMAIN s : s[j][1] = n IN s[i][2]
                     ELSE 0]

NoOut == [tagdirs |-> {}, files |-> {}]

\* the state a call starts from
Snapshot == [tags |-> tags, fsxattr |-> fsxattr, dir |-> dir, xa |-> xa]

NoCall == [op |-> "none", p |-> Root, q |-> Root, res |-> "none", out |-> NoOut,
           pre |-> [tags |-> <<>>, fsxattr |-> <<>>, dir |-> <<>>, xa |-> <<>>]]

\* the record of a call that returned res (and, for readdir, the listing out)
Call(log, op, p, q, res, out) ==
    IF log
    THEN [op |-> op, p |-> p, q |-> q, res |-> res, out |-> out, pre |-> Snapshot]
    ELSE NoCall

Done(log, op, p, q, res) == Call(log, op, p, q, res, NoOut)

\* xattr2tags has run on every file of the set S
xattr2tags_scan(S) ==
    [i \in Inodes |-> IF xa[i] = Missing /\ \E f \in S : dir[f] = i
                      THEN Empty ELSE xa[i]]

----------------------------------------------------------------------------
(* Tagfs.tags_operation, lines 53-60: which arm runs for a path, and the    *)
(* xattr table after the classification.  xattr2tags on a name with no      *)
(* backing entry raises ENOENT out of its own handler (set_tags_xattr on    *)
(* the missing entry, line 34).                                             *)

\* a classifier that reads the tags of every name from its backing entry
tags_operation_xattr(path) ==
    IF base(path) \notin Files
    THEN [arm |-> "ENOENT", xa |-> xa]
    ELSE LET x == xattr2tags_init(xa, dir[base(path)])
         IN  [arm |-> IF ~(path2tags(path) \subseteq decode(x[dir[base(path)]]))
                      THEN "ENOENT"
                      ELSE IF base(path) \in Registry THEN "tags" ELSE "files",
              xa  |-> x]

\* a classifier that lets every existing file through, whatever its tags
tags_operation_any(path) ==
    IF base(path) \in Registry
    THEN [arm |-> IF path2tags(path) \subseteq Registry THEN "tags" ELSE "ENOENT",
          xa  |-> xa]
    ELSE IF base(path) \notin Files
    THEN [arm |-> "ENOENT", xa |-> xa]
    ELSE [arm |-> "files", xa |-> xattr2tags_init(xa, dir[base(path)])]

tags_operation(path) ==
    IF base(path) \in Registry
    THEN [arm |-> IF path2tags(path) \subseteq Registry THEN "tags" ELSE "ENOENT",
          xa  |-> xa]
    ELSE IF base(path) \notin Files
    THEN [arm |-> "ENOENT", xa |-> xa]
    ELSE LET x == xattr2tags_init(xa, dir[base(path)])
         IN  [arm |-> IF path2tags(path) \subseteq decode(x[dir[base(path)]])
                      THEN "files" ELSE "ENOENT",
              xa  |-> x]

----------------------------------------------------------------------------
\* Tagfs.__init__ and Tagfs.init, lines 43-68: a mount over a backing root
\* whose persisted registry is empty and which holds at most MaxFiles files,
\* each with no user.tags xattr or with one written for some set of tags
Init ==
    /\ fsxattr = str([n \in Names |-> 0])
    /\ tags = literal_eval(fsxattr)
    /\ \E F \in {G \in SUBSET Names : Cardinality(G) <= MaxFiles} :
          /\ dir = [n \in Names |-> IF n \in F THEN Ino(n) ELSE 0]
          /\ xa \in {x \in [Inodes -> {Missing} \cup {set_tags_value(S) : S \in SUBSET Names}] :
                       \A n \in Names \ F : x[Ino(n)] = Missing}
    /\ last = NoCall

\* Tagfs.mkdir, lines 112-118
\* a mkdir that registers the tag without making the backing directory
mkdir_res_registry_only(path) ==
    IF ~(path2tags(path) \subseteq Registry) THEN "ENOENT" ELSE "OK"

mkdir_res(path) ==
    IF ~(path2tags(path) \subseteq Registry) THEN "ENOENT"
    ELSE IF base(path) \in Files THEN "EEXIST"
    ELSE "OK"

mkdir(path, st, log) ==
    /\ last' = Done(log, "mkdir", path, Root, mkdir_res(path))
    /\ IF mkdir_res(path) = "OK"
       THEN /\ tags' = [tags EXCEPT ![base(path)] = st]
            /\ fsxattr' = str(tags')
       ELSE UNCHANGED <<tags, fsxattr>>
    /\ UNCHANGED <<dir, xa>>

\* Tagfs.rmdir, lines 120-128
\* a scan that compares the whole attribute value with the tag, not its pieces
rmdir_bearers_whole(path) == {f \in Files : xa[dir[f]] = base(path)}

rmdir_bearers(path) == {f \in Files : base(path) \in TagSet(f)}

rmdir(path, log) ==
    LET t == tags_operation(path) IN
    /\ UNCHANGED dir
    /\ IF t.arm = "ENOENT"
       THEN /\ last' = Done(log, "rmdir", path, Root, "ENOENT")
            /\ xa' = t.xa
            /\ UNCHANGED <<tags, fsxattr>>
       ELSE IF t.arm = "files"
       THEN \* os.rmdir on a file
            /\ last' = Done(log, "rmdir", path, Root, "ENOTDIR")
            /\ xa' = t.xa
            /\ UNCHANGED <<tags, fsxattr>>
       ELSE IF rmdir_bearers(path) # {}
       THEN \* any() stops at the first bearer; the files os.listdir put
            \* before it have had their missing xattr initialised
            /\ \E S \in SUBSET (Files \ rmdir_bearers(path)) :
                  xa' = xattr2tags_scan(S)
            /\ last' = Done(log, "rmdir", path, Root, "ENOTEMPTY")
            /\ UNCHANGED <<tags, fsxattr>>
       ELSE /\ xa' = xattr2tags_scan(Files)
            /\ tags' = [tags EXCEPT ![base(path)] = 0]
            /\ fsxattr' = str(tags')
            /\ last' = Done(log, "rmdir", path, Root, "OK")

\* Tagfs.readdir, lines 130-137: the returned list is '.', '..', then the
\* tag directories, then the files
\* a listing that forgets the directory's own tag
readdir_tags_prefix(path) == path2tags(path)

readdir_tags(path) == IF path = Root THEN {} ELSE path2tags(path) \cup {base(path)}

readdir_out(path) ==
    [tagdirs |-> Registry \ readdir_tags(path),
     files   |-> {f \in Files : readdir_tags(path) \subseteq TagSet(f)}]

readdir(path, log) ==
    /\ last' = Call(log, "readdir", path, Root, "OK", readdir_out(path))
    /\ xa' = xattr2tags_scan(Files)
    /\ UNCHANGED <<tags, fsxattr, dir>>

\* notsup, lines 11-12
notsup == "ENOTSUP"

\* a create without a tags arm of its own
create_tags_default == notsup

\* Tagfs.create, lines 196-199: os.open with O_CREAT is reached only for a
\* name that already has a backing entry
create_tags == "EEXIST"

create(path, log) ==
    LET t == tags_operation(path) IN
    /\ last' = Done(log, "create", path, Root,
                    IF t.arm = "ENOENT" THEN "ENOENT"
                    ELSE IF t.arm = "tags" THEN create_tags
                    ELSE "OK")
    /\ xa' = t.xa
    /\ UNCHANGED <<tags, fsxattr, dir>>

\* Tagfs.mknod, lines 108-110: os.mknod is reached only for a name that
\* already has a backing entry
mknod(path, log) ==
    LET t == tags_operation(path) IN
    /\ last' = Done(log, "mknod", path, Root,
                    IF t.arm = "ENOENT" THEN "ENOENT"
                    ELSE IF t.arm = "tags" THEN notsup
                    ELSE "EEXIST")
    /\ xa' = t.xa
    /\ UNCHANGED <<tags, fsxattr, dir>>

\* Tagfs.unlink, lines 146-149: the files arm reads the unbound name source
unlink_files == "NameError"

unlink(path, log) ==
    LET t == tags_operation(path) IN
    /\ last' = Done(log, "unlink", path, Root,
                    IF t.arm = "ENOENT" THEN "ENOENT"
                    ELSE IF t.arm = "tags" THEN "EISDIR"
                    ELSE unlink_files)
    /\ xa' = t.xa
    /\ UNCHANGED <<tags, fsxattr, dir>>

\* Tagfs.link, lines 139-144: os.link fails when the new name has an entry;
\* the xattr is written to the inode both names share
\* a link that has no tags arm of its own
link_tags_default == notsup

\* line 143
link_tags == "EPERM"

link(lnk, source, log) ==
    LET t == tags_operation(source) IN
    /\ UNCHANGED <<tags, fsxattr>>
    /\ IF t.arm # "files"
       THEN /\ last' = Done(log, "link", lnk, source,
                            IF t.arm = "tags" THEN link_tags ELSE "ENOENT")
            /\ xa' = t.xa
            /\ UNCHANGED dir
       ELSE IF base(lnk) \in Files
       THEN /\ last' = Done(log, "link", lnk, source, "EEXIST")
            /\ xa' = t.xa
            /\ UNCHANGED dir
       ELSE /\ last' = Done(log, "link", lnk, source, "OK")
            /\ dir' = [dir EXCEPT ![base(lnk)] = dir[base(source)]]
            /\ xa' = [t.xa EXCEPT ![dir[base(source)]] =
                        set_tags_value(path2tags(lnk))]

\* Tagfs.symlink, lines 151-159
symlink(lnk, source, log) ==
    /\ UNCHANGED <<tags, fsxattr, dir>>
    /\ IF source = Empty \/ base(lnk) \notin Files
       THEN \* an empty target, or xattr2tags raising on the missing entry
            /\ last' = Done(log, "symlink", lnk, source, "ENOENT")
            /\ UNCHANGED xa
       ELSE LET x == xattr2tags_init(xa, dir[base(lnk)]) IN
            /\ xa' = x
            /\ last' = Done(log, "symlink", lnk, source,
                            \* line 154, or os.symlink onto the entry
                            IF path2tags(lnk) \subseteq decode(x[dir[base(lnk)]])
                            THEN "EEXIST" ELSE "ENOENT")

\* Tagfs.rename, lines 161-169
rename_files_tags(old, new, cur) ==
    (cur \ (path2tags(old) \ path2tags(new))) \cup (path2tags(new) \ path2tags(old))

\* os.rename, line 163: nothing happens when both names are links to one
\* inode; an entry under the new name is replaced
os_rename(d, o, n) ==
    IF d[n] = d[o] THEN d
    ELSE [m \in Names |-> IF m = o THEN 0 ELSE IF m = n THEN d[o] ELSE d[m]]

\* a rename that keeps the snapshot of a key already there under the new name
rename_tags_keep(t, o, n) ==
    [m \in Names |-> IF m = n THEN (IF t[n] # 0 THEN t[n] ELSE t[o])
                     ELSE IF m = o THEN 0 ELSE t[m]]

\* line 168
rename_tags(t, o, n) ==
    [m \in Names |-> IF m = n THEN t[o] ELSE IF m = o THEN 0 ELSE t[m]]

rename(old, new, log) ==
    LET t == tags_operation(old) IN
    /\ IF t.arm = "ENOENT"
       THEN /\ last' = Done(log, "rename", old, new, "ENOENT")
            /\ xa' = t.xa
            /\ UNCHANGED <<tags, fsxattr, dir>>
       ELSE IF t.arm = "tags"
       THEN /\ last' = Done(log, "rename", old, new, "OK")
            /\ tags' = rename_tags(tags, base(old), base(new))
            /\ UNCHANGED <<fsxattr, dir, xa>>
       ELSE LET i == dir[base(old)] IN
            /\ last' = Done(log, "rename", old, new, "OK")
            /\ dir' = os_rename(dir, base(old), base(new))
            /\ xa' = Live(dir', [t.xa EXCEPT ![i] =
                        set_tags_value(rename_files_tags(old, new, decode(t.xa[i])))])
            /\ UNCHANGED <<tags, fsxattr>>

----------------------------------------------------------------------------
(* The handlers that only pass a backing call through tags_operation.  The  *)
(* backing call itself is taken to succeed on an existing entry unless an   *)
(* input says otherwise.                                                    *)

\* lines 53-60 as called with one result for each arm
tags_operation_call(op, path, log, files_res, tags_res) ==
    LET t == tags_operation(path) IN
    /\ last' = Done(log, op, path, Root,
                    IF t.arm = "ENOENT" THEN "ENOENT"
                    ELSE IF t.arm = "tags" THEN tags_res
                    ELSE files_res)
    /\ xa' = t.xa
    /\ UNCHANGED <<tags, fsxattr, dir>>

\* Tagfs.access, lines 82-87; ok is what os.access answers
access(path, ok, log) ==
    tags_operation_call("access", path, log, IF ok THEN "OK" ELSE "EACCES", "OK")

\* Tagfs.getattr, lines 89-94: the backing lstat, or the stored snapshot
getattr_files == "OK"

getattr_tags == "OK"

getattr(path, log) ==
    tags_operation_call("getattr", path, log, getattr_files, getattr_tags)

\* Tagfs.chmod, lines 96-98
chmod(path, log) == tags_operation_call("chmod", path, log, "OK", notsup)

\* Tagfs.chown, lines 100-102
chown(path, log) == tags_operation_call("chown", path, log, "OK", notsup)

\* Tagfs.readlink, lines 104-106; islink says whether the entry is a symlink
readlink(path, islink, log) ==
    tags_operation_call("readlink", path, log,
                        IF islink THEN "OK" ELSE "EINVAL", notsup)

\* Tagfs.utimens, lines 187-189
utimens(path, log) == tags_operation_call("utimens", path, log, "OK", notsup)

\* Tagfs.open, lines 191-194
open_tags == "EPERM"

open(path, log) == tags_operation_call("open", path, log, "OK", open_tags)

\* Tagfs.truncate, lines 209-214
truncate(path, log) == tags_operation_call("truncate", path, log, "OK", "EISDIR")

\* Tagfs.listxattr, lines 171-173
listxattr(path, log) == tags_operation_call("listxattr", path, log, "OK", notsup)

\* Tagfs.getxattr, lines 175-177: user.tags is there once xattr2tags has
\* run; has says whether the other attribute is
getxattr(path, name, has, log) ==
    tags_operation_call("getxattr", path, log,
                        IF name = TagsAttr \/ has THEN "OK" ELSE "ENODATA", notsup)

\* Tagfs.setxattr, lines 179-181, with options 0: a write to user.tags
\* replaces the file's tag store
setxattr(path, name, value, log) ==
    LET t == tags_operation(path) IN
    /\ last' = Done(log, "setxattr", path, Root,
                    IF t.arm = "ENOENT" THEN "ENOENT"
                    ELSE IF t.arm = "tags" THEN notsup
                    ELSE "OK")
    /\ xa' = IF t.arm = "files" /\ name = TagsAttr
             THEN [t.xa EXCEPT ![dir[base(path)]] = value]
             ELSE t.xa
    /\ UNCHANGED <<tags, fsxattr, dir>>

\* Tagfs.removexattr, lines 183-185
removexattr(path, name, has, log) ==
    LET t == tags_operation(path) IN
    /\ last' = Done(log, "removexattr", path, Root,
                    IF t.arm = "ENOENT" THEN "ENOENT"
                    ELSE IF t.arm = "tags" THEN notsup
                    ELSE IF name = TagsAttr \/ has THEN "OK"
                    ELSE "ENODATA")
    /\ xa' = IF t.arm = "files" /\ name = TagsAttr
             THEN [t.xa EXCEPT ![dir[base(path)]] = Missing]
             ELSE t.xa
    /\ UNCHANGED <<tags, fsxattr, dir>>

\* one more call, while no call has been kept
Calling == last.op = "none"

Next ==
    \/ Calling /\ \E p \in Paths, st \in Stats, log \in BOOLEAN : mkdir(p, st, log)
    \/ Calling /\ \E p \in Paths, log \in BOOLEAN : rmdir(p, log)
    \/ Calling /\ \E p \in DirPaths, log \in BOOLEAN : readdir(p, log)
    \/ Calling /\ \E p \in Paths, log \in BOOLEAN : create(p, log)
    \/ Calling /\ \E p \in Paths, log \in BOOLEAN : mknod(p, log)
    \/ Calling /\ \E p \in Paths, log \in BOOLEAN : unlink(p, log)
    \/ Calling /\ \E p \in Paths, q \in Paths, log \in BOOLEAN : link(p, q, log)
    \/ Calling /\ \E p \in Paths, s \in Targets, log \in BOOLEAN : symlink(p, s, log)
    \/ Calling /\ \E p \in Paths, q \in Paths, log \in BOOLEAN : rename(p, q, log)
    \/ Calling /\ \E p \in Paths, ok \in BOOLEAN, log \in BOOLEAN : access(p, ok, log)
    \/ Calling /\ \E p \in Paths, log \in BOOLEAN : getattr(p, log)
    \/ Calling /\ \E p \in Paths, log \in BOOLEAN : chmod(p, log)
    \/ Calling /\ \E p \in Paths, log \in BOOLEAN : chown(p, log)
    \/ Calling /\ \E p \in Paths, l \in BOOLEAN, log \in BOOLEAN : readlink(p, l, log)
    \/ Calling /\ \E p \in Paths, log \in BOOLEAN : utimens(p, log)
    \/ Calling /\ \E p \in Paths, log \in BOOLEAN : open(p, log)
    \/ Calling /\ \E p \in Paths, log \in BOOLEAN : truncate(p, log)
    \/ Calling /\ \E p \in Paths, log \in BOOLEAN : listxattr(p, log)
    \/ Calling /\ \E p \in Paths, n \in AttrNames, h \in BOOLEAN, log \in BOOLEAN :
                     getxattr(p, n, h, log)
    \/ Calling /\ \E p \in Paths, n \in AttrNames, v \in XattrValues, log \in BOOLEAN :
                     setxattr(p, n, v, log)
    \/ Calling /\ \E p \in Paths, n \in AttrNames, h \in BOOLEAN, log \in BOOLEAN :
                     removexattr(p, n, h, log)

Spec == Init /\ [][Next]_vars

\* the calls that read or write the registry, mkdir drawing its snapshot
\* from StatsRegistry
NextRegistry ==
    \/ Calling /\ \E p \in Paths, st \in StatsRegistry, log \in BOOLEAN : mkdir(p, st, log)
    \/ Calling /\ \E p \in Paths, log \in BOOLEAN : rmdir(p, log)
    \/ Calling /\ \E p \in DirPaths, log \in BOOLEAN : readdir(p, log)
    \/ Calling /\ \E p \in Paths, q \in Paths, log \in BOOLEAN : rename(p, q, log)

SpecRegistry == Init /\ [][NextRegistry]_vars

----------------------------------------------------------------------------
(* What the kept call started from *)

PreRegistry == {n \in Names : last.pre.tags[n] # 0}

PreFiles == {n \in Names : last.pre.dir[n] # 0}

PreTagSet(f) == decode(last.pre.xa[last.pre.dir[f]])

\* the directory a path lies in
parent(path) == SubSeq(path, 1, Len(path) - 1)

\* the path names a backing file that is no tag and is visible at the path
PreVisibleFile(path) ==
    /\ base(path) \notin PreRegistry
    /\ base(path) \in PreFiles
    /\ path2tags(path) \subseteq PreTagSet(base(path))

----------------------------------------------------------------------------
(* C1 *)

\* C1: readdir(p) lists a backing file exactly when the file's tag set
\* includes every component of p, so two paths with the same set of
\* components list the same files.
C1_ReaddirListsSupersets ==
    /\ last.op = "readdir" =>
          last.out.files = {f \in PreFiles : Range(last.p) \subseteq PreTagSet(f)}
    /\ Calling =>
          \A p \in DirPaths, q \in DirPaths :
             Range(p) = Range(q) => readdir_out(p).files = readdir_out(q).files

\* a listing of a two-tag directory that shows a file
C1_Witness ==
    /\ last.op = "readdir"
    /\ Len(last.p) = 2
    /\ last.p[1] # last.p[2]
    /\ last.out.files # {}

----------------------------------------------------------------------------
(* C2 *)

\* C2: dual exclusion is preserved by every call: if no base name was both a
\* registry key and a backing file before mkdir, rmdir, create, mknod,
\* symlink, link, rename or unlink, none is afterwards.
C2_DualExclusion ==
    (/\ last.op \in {"mkdir", "rmdir", "create", "mknod", "symlink", "link",
                     "rename", "unlink"}
     /\ PreRegistry \cap PreFiles = {})
    => Registry \cap Files = {}

----------------------------------------------------------------------------
(* C3 *)

\* C3 as stated: for every name T, rmdir('/T') fails with ENOTEMPTY exactly
\* when some backing file's tag set contains T; a refusal leaves the registry
\* unchanged; with no bearer and T registered, T is removed.
C3_RmdirRefusal_AsStated ==
    (last.op = "rmdir" /\ Len(last.p) = 1) =>
       LET T == last.p[1]
           borne == \E f \in PreFiles : T \in PreTagSet(f)
       IN  /\ (last.res = "ENOTEMPTY") <=> borne
           /\ last.res = "ENOTEMPTY" =>
                 tags = last.pre.tags /\ fsxattr = last.pre.fsxattr
           /\ (~borne /\ T \in PreRegistry) =>
                 /\ last.res = "OK"
                 /\ tags = [last.pre.tags EXCEPT ![T] = 0]

\* C3 amended: rmdir('/T') fails with ENOTEMPTY exactly when T is registered
\* and some backing file's tag set contains T; a refusal leaves the registry
\* unchanged; with no bearer and T registered, T is removed.
C3_RmdirRefusal ==
    (last.op = "rmdir" /\ Len(last.p) = 1) =>
       LET T == last.p[1]
           borne == \E f \in PreFiles : T \in PreTagSet(f)
       IN  /\ (last.res = "ENOTEMPTY") <=> (T \in PreRegistry /\ borne)
           /\ last.res = "ENOTEMPTY" =>
                 tags = last.pre.tags /\ fsxattr = last.pre.fsxattr
           /\ (~borne /\ T \in PreRegistry) =>
                 /\ last.res = "OK"
                 /\ tags = [last.pre.tags EXCEPT ![T] = 0]

\* rmdir of a registered tag that a file bears was refused
C3_Witness ==
    /\ last.op = "rmdir"
    /\ Len(last.p) = 1
    /\ last.res = "ENOTEMPTY"
    /\ \E f \in PreFiles : last.p[1] \in PreTagSet(f)

----------------------------------------------------------------------------
(* C4 *)

\* C4: after a successful file-branch rename(old, new) the file is in the
\* backing root under name(new), no longer under name(old) when the names
\* differ, its tag set is (old_tags \ prefix_tags(old)) \cup prefix_tags(new),
\* and the registry is unchanged.
C4_RenameFile ==
    (last.op = "rename" /\ last.res = "OK" /\ base(last.p) \notin PreRegistry) =>
       /\ base(last.q) \in Files
       /\ base(last.p) # base(last.q) => base(last.p) \notin Files
       /\ TagSet(base(last.q)) =
             (PreTagSet(base(last.p)) \ path2tags(last.p)) \cup path2tags(last.q)
       /\ tags = last.pre.tags

----------------------------------------------------------------------------
(* C5 *)

\* C5: create on a path whose last component is neither a registry key nor a
\* backing file, and whose prefix tags are registered, succeeds and the new
\* file is listed by readdir('/').
C5_CreateNewFile ==
    (/\ last.op = "create"
     /\ base(last.p) \notin PreRegistry
     /\ base(last.p) \notin PreFiles
     /\ path2tags(last.p) \subseteq PreRegistry)
    => /\ last.res = "OK"
       /\ base(last.p) \in Files
       /\ base(last.p) \in readdir_out(Root).files

----------------------------------------------------------------------------
(* C6 *)

\* C6: unlink on a path at which a backing file is visible succeeds, and
\* afterwards the file is not in the backing root and no readdir lists it.
C6_UnlinkRemoves ==
    (last.op = "unlink" /\ PreVisibleFile(last.p)) =>
       /\ last.res = "OK"
       /\ base(last.p) \notin Files
       /\ \A d \in DirPaths : base(last.p) \notin readdir_out(d).files

----------------------------------------------------------------------------
(* C7 *)

\* C7: link(new, old) with old a visible file, new in a registered tag
\* directory and name(new) = name(old) succeeds, and the file is then listed
\* by readdir('/') and by readdir of new's directory.
C7_LinkSameName ==
    (/\ last.op = "link"
     /\ PreVisibleFile(last.q)
     /\ Len(last.p) >= 2
     /\ path2tags(last.p) \subseteq PreRegistry
     /\ base(last.p) = base(last.q))
    => /\ last.res = "OK"
       /\ base(last.p) \in readdir_out(Root).files
       /\ base(last.p) \in readdir_out(parent(last.p)).files

----------------------------------------------------------------------------
(* C8 *)

\* C8: after every successful mkdir, tag-branch rmdir and tag-branch rename,
\* the registry read back from the root xattr equals the registry in memory.
C8_RegistryPersisted ==
    (/\ last.res = "OK"
     /\ \/ last.op \in {"mkdir", "rmdir"}
        \/ last.op = "rename" /\ base(last.p) \in PreRegistry)
    => literal_eval(fsxattr) = tags

----------------------------------------------------------------------------
(* C9 *)

\* C9: if every file's tag set was within the registry keys before a rename,
\* link, symlink, rmdir or mkdir, it is afterwards.
C9_TagsWithinRegistry ==
    (/\ last.op \in {"rename", "link", "symlink", "rmdir", "mkdir"}
     /\ \A f \in PreFiles : PreTagSet(f) \subseteq PreRegistry)
    => \A f \in Files : TagSet(f) \subseteq Registry

----------------------------------------------------------------------------
(* C10 *)

\* C10: create on a path whose last component is a registry key and whose
\* prefix tags are registered fails with EEXIST and changes nothing: no
\* backing entry, no xattr, no registry entry.
C10_CreateOnTag ==
    (/\ last.op = "create"
     /\ base(last.p) \in PreRegistry
     /\ path2tags(last.p) \subseteq PreRegistry)
    => /\ last.res = "EEXIST"
       /\ dir = last.pre.dir
       /\ xa = last.pre.xa
       /\ tags = last.pre.tags
       /\ fsxattr = last.pre.fsxattr

\* create of /T/T on a registered tag T, with a file in the backing root
C10_Witness ==
    /\ last.op = "create"
    /\ Len(last.p) = 2
    /\ last.p[1] = last.p[2]
    /\ last.p[1] \in PreRegistry
    /\ last.res = "EEXIST"
    /\ Files # {}


\* C11: mknod on a path whose last component is a registry key, all the
\* prefix components being registered, fails with EEXIST as create does,
\* and changes nothing
C11_MknodOnTag ==
    (/\ last.op = "mknod"
     /\ base(last.p) \in PreRegistry
     /\ path2tags(last.p) \subseteq PreRegistry)
    => /\ last.res = "EEXIST"
       /\ dir = last.pre.dir
       /\ xa = last.pre.xa
       /\ tags = last.pre.tags
       /\ fsxattr = last.pre.fsxattr


\* the calls routed through tags_operation on the path they classify: the
\* source path for link, the old path for rename
Routed == {"getattr", "access", "open", "truncate", "chmod", "chown",
           "utimens", "readlink", "listxattr", "getxattr", "setxattr",
           "removexattr", "unlink", "rmdir", "rename", "link"}

RoutedPath == IF last.op = "link" THEN last.q ELSE last.p

\* the kept call classified a path naming an existing backing file that is
\* no tag and that lacks one of the path's prefix tags
PreHiddenFile ==
    /\ last.op \in Routed
    /\ base(RoutedPath) \notin PreRegistry
    /\ base(RoutedPath) \in PreFiles
    /\ ~(path2tags(RoutedPath) \subseteq PreTagSet(base(RoutedPath)))

\* C12: a call routed through the classifier on a path whose last component
\* names an existing backing file that is not a tag, and whose prefix tags
\* are not all in the file's tag set, fails with ENOENT and changes neither
\* the backing files, nor any file's tag set, nor the registry
C12_VisibilityRule ==
    PreHiddenFile
    => /\ last.res = "ENOENT"
       /\ dir = last.pre.dir
       /\ \A f \in PreFiles : TagSet(f) = PreTagSet(f)
       /\ tags = last.pre.tags
       /\ fsxattr = last.pre.fsxattr

\* a file with no tag store yet is refused under a tag directory by a
\* setxattr, which leaves the store initialised and the tag set empty
C12_Witness ==
    /\ PreHiddenFile
    /\ last.op = "setxattr"
    /\ last.res = "ENOENT"
    /\ last.pre.xa[last.pre.dir[base(last.p)]] = Missing
    /\ xa[dir[base(last.p)]] = Empty

\* C13: symlink(new, target) with non-empty arguments succeeds when
\* name(new) is neither a tag nor a backing file and the prefix tags are all
\* registered, and then the backing root holds name(new) with the tag set
\* prefix_tags(new); when name(new) is a registry key it fails with EEXIST
C13_Symlink ==
    (last.op = "symlink" /\ last.q # Empty)
    => /\ (/\ base(last.p) \notin PreRegistry
           /\ base(last.p) \notin PreFiles
           /\ path2tags(last.p) \subseteq PreRegistry)
          => /\ last.res = "OK"
             /\ base(last.p) \in Files
             /\ TagSet(base(last.p)) = path2tags(last.p)
       /\ base(last.p) \in PreRegistry => last.res = "EEXIST"

\* the kept mkdir left the registry, its persisted copy and the backing root
\* as they were
MkdirNoEffect ==
    /\ tags = last.pre.tags
    /\ fsxattr = last.pre.fsxattr
    /\ dir = last.pre.dir
    /\ xa = last.pre.xa

\* C14 as stated: mkdir fails with ENOENT when some prefix tag is not a
\* registry key, and with EEXIST when name(path) is an existing backing
\* file, in both cases without effect
C14_MkdirFailures_AsStated ==
    last.op = "mkdir"
    => /\ ~(path2tags(last.p) \subseteq PreRegistry)
          => (last.res = "ENOENT" /\ MkdirNoEffect)
       /\ base(last.p) \in PreFiles
          => (last.res = "EEXIST" /\ MkdirNoEffect)

\* C14: mkdir fails with ENOENT when some prefix tag is not a registry key,
\* and otherwise with EEXIST when name(path) is an existing backing file; in
\* both cases the registry, its persisted copy and the backing root are
\* unchanged
C14_MkdirFailures ==
    last.op = "mkdir"
    => /\ ~(path2tags(last.p) \subseteq PreRegistry)
          => (last.res = "ENOENT" /\ MkdirNoEffect)
       /\ (path2tags(last.p) \subseteq PreRegistry /\ base(last.p) \in PreFiles)
          => (last.res = "EEXIST" /\ MkdirNoEffect)

\* a mkdir under a registered tag is refused for the name of a backing file
C14_Witness ==
    /\ last.op = "mkdir"
    /\ Len(last.p) = 2
    /\ path2tags(last.p) \subseteq PreRegistry
    /\ base(last.p) \in PreFiles
    /\ last.res = "EEXIST"

\* C15: open(path) where name(path) is a tag, and link(new, old) where
\* name(old) is a tag, the prefix tags being all registered, fail with EPERM
\* and leave the backing root as it was
C15_FileOnlyOnTag ==
    /\ (/\ last.op = "open"
        /\ base(last.p) \in PreRegistry
        /\ path2tags(last.p) \subseteq PreRegistry)
       => /\ last.res = "EPERM"
          /\ dir = last.pre.dir
          /\ xa = last.pre.xa
    /\ (/\ last.op = "link"
        /\ base(last.q) \in PreRegistry
        /\ path2tags(last.q) \subseteq PreRegistry)
       => /\ last.res = "EPERM"
          /\ dir = last.pre.dir
          /\ xa = last.pre.xa

\* a link onto a tag directory below another tag is refused, the new name
\* being free in the backing root
C15_Witness ==
    /\ last.op = "link"
    /\ Len(last.q) = 2
    /\ base(last.q) \in PreRegistry
    /\ path2tags(last.q) \subseteq PreRegistry
    /\ base(last.p) \notin PreFiles
    /\ last.res = "EPERM"

\* C16: after a successful rename whose old name is a registry key,
\* name(old) is no key when the names differ, name(new) is a key holding the
\* snapshot name(old) held, every other key holds what it held, and
\* readdir('/') lists name(new) and not name(old) among the tag directories
C16_RenameTag ==
    (/\ last.op = "rename"
     /\ last.res = "OK"
     /\ base(last.p) \in PreRegistry)
    => /\ base(last.p) # base(last.q) => base(last.p) \notin Registry
       /\ base(last.q) \in Registry
       /\ tags[base(last.q)] = last.pre.tags[base(last.p)]
       /\ \A n \in Names \ {base(last.p), base(last.q)} : tags[n] = last.pre.tags[n]
       /\ base(last.q) \in readdir_out(Root).tagdirs
       /\ base(last.p) # base(last.q) => base(last.p) \notin readdir_out(Root).tagdirs

\* a tag is renamed onto another key that held a different snapshot, a
\* third key standing by
C16_Witness ==
    /\ last.op = "rename"
    /\ last.res = "OK"
    /\ base(last.p) \in PreRegistry
    /\ base(last.q) \in PreRegistry
    /\ last.pre.tags[base(last.q)] # last.pre.tags[base(last.p)]
    /\ \E n \in PreRegistry \ {base(last.p), base(last.q)} : n \in Registry
    /\ tags[base(last.q)] = last.pre.tags[base(last.p)]

\* C17: after a successful link(new, old) under a new name, the new link's
\* tag set is prefix_tags(new) and the tag set of the file at name(old) is
\* what it was, so that every directory that listed the old file lists it
\* still
C17_LinkFrame ==
    (/\ last.op = "link"
     /\ last.res = "OK"
     /\ base(last.p) # base(last.q))
    => /\ TagSet(base(last.p)) = path2tags(last.p)
       /\ TagSet(base(last.q)) = PreTagSet(base(last.q))
       /\ \A d \in Paths :
             readdir_tags(d) \subseteq PreTagSet(base(last.q))
             => base(last.q) \in readdir_out(d).files

\* C18: for every set S of valid tags, those with a comma included, reading
\* back the tag store written for S gives exactly S; hence a file renamed
\* into the directory of a registered tag T is listed by readdir('/T')
C18_RoundTrip ==
    /\ \A S \in SUBSET Names : decode(set_tags_value(S)) = S
    /\ (/\ last.op = "rename"
        /\ last.res = "OK"
        /\ base(last.p) \notin PreRegistry
        /\ Len(last.q) = 2
        /\ last.q[1] \in PreRegistry)
       => base(last.q) \in readdir_out(parent(last.q)).files

\* the entries other than '.' and '..' that readdir returns for a directory
readdir_entries(d) == readdir_out(d).tagdirs \cup readdir_out(d).files

\* C19: from a state where no name is both a registry key and a backing
\* file, getattr succeeds on p + '/' + e for every directory path p whose
\* components are all registered tags and every entry e that readdir(p)
\* returns; getattr itself changes nothing that readdir(p) depends on
C19_ReaddirGetattr ==
    last.op = "getattr"
    => /\ tags = last.pre.tags
       /\ dir = last.pre.dir
       /\ \A f \in PreFiles : TagSet(f) = PreTagSet(f)
       /\ (/\ PreRegistry \cap PreFiles = {}
           /\ Range(parent(last.p)) \subseteq PreRegistry
           /\ base(last.p) \in readdir_entries(parent(last.p)))
          => last.res = "OK"

\* getattr on a file listed in a tag directory, and on a tag directory
\* listed there, differ only in the arm taken; this is the file
C19_Witness ==
    /\ last.op = "getattr"
    /\ PreRegistry \cap PreFiles = {}
    /\ Len(last.p) = 2
    /\ Range(parent(last.p)) \subseteq PreRegistry
    /\ base(last.p) \in readdir_out(parent(last.p)).files
    /\ readdir_out(parent(last.p)).tagdirs # {}
    /\ last.res = "OK"

============================================================================
